---- MODULE Spec2Model ----
(***************************************************************************)
(* A model of the puzzlefs OCI image layer (oci/src/lib.rs, oci/src/index.rs): *)
(* the content-addressed blob store (put_blob, open_raw_blob,               *)
(* open_compressed_blob, fill_from_chunk), the index (get_index, put_index) *)
(* and the layout marker (Image::open), over an explicit file system of     *)
(* inodes and directory entries.                                            *)
(***************************************************************************)
EXTENDS Integers, Sequences, FiniteSets, TLC

(***************************************************************************)
(* Bounds of the model.                                                     *)
(***************************************************************************)
\* longest generated input of put_blob (inputs are all byte strings over
\* Alphabet up to this length, plus the test vectors of the repository)
MaxLen == 2
\* calls one client makes in a sequential run
MaxCalls == 2

(***************************************************************************)
(* Program constants.                                                       *)
(***************************************************************************)
PUZZLEFS_IMAGE_LAYOUT_VERSION == "puzzlefs-dev"
IMAGE_LAYOUT_PATH == "oci-layout"
PUZZLEFS_SCHEMA_VERSION == -1
PATH == "index.json"

(***************************************************************************)
(* Bytes and byte strings.                                                  *)
(***************************************************************************)
Alphabet == {48}

SeqsUpTo(S, n) == UNION {[1..k -> S] : k \in 0..n}

\* "meshuggah rocks", the input of tests::test_put_blob_correct_hash
MeshuggahRocks == <<109, 101, 115, 104, 117, 103, 103, 97, 104, 32, 114, 111, 99, 107, 115>>
\* "0123456789"
Digits == <<48, 49, 50, 51, 52, 53, 54, 55, 56, 57>>

Inputs == SeqsUpTo(Alphabet, MaxLen) \cup {MeshuggahRocks, Digits}

\* the inputs of the concurrent runs
ConcInputs == {<<48>>, <<48, 49>>}

Min(a, b) == IF a < b THEN a ELSE b

SubSeqFrom(s, pos, n) == SubSeq(s, pos + 1, pos + n)

(***************************************************************************)
(* SHA-256 (sha2::Sha256), on 32-bit words kept as <<high, low>> 16-bit     *)
(* halves.                                                                  *)
(***************************************************************************)
Sha256K ==
    <<
       <<17034, 12184>>, <<28983, 17553>>, <<46528, 64463>>, <<59829, 56229>>,
       <<14678, 49755>>, <<23025, 4593>>, <<37439, 33444>>, <<43804, 24277>>,
       <<55303, 43672>>, <<4739, 23297>>, <<9265, 34238>>, <<21772, 32195>>,
       <<29374, 23924>>, <<32990, 45566>>, <<39900, 1703>>, <<49563, 61812>>,
       <<58523, 27073>>, <<61374, 18310>>, <<4033, 40390>>, <<9228, 41420>>,
       <<11753, 11375>>, <<19060, 33962>>, <<23728, 43484>>, <<30457, 35034>>,
       <<38974, 20818>>, <<43057, 50797>>, <<45059, 10184>>, <<48985, 32711>>,
       <<50912, 3059>>, <<54695, 37191>>, <<1738, 25425>>, <<5161, 10599>>,
       <<10167, 2693>>, <<11803, 8504>>, <<19756, 28156>>, <<21304, 3347>>,
       <<25866, 29524>>, <<30314, 2747>>, <<33218, 51502>>, <<37490, 11397>>,
       <<41663, 59553>>, <<43034, 26187>>, <<49739, 35696>>, <<51052, 20899>>,
       <<53650, 59417>>, <<54937, 1572>>, <<62478, 13701>>, <<4202, 41072>>,
       <<6564, 49430>>, <<7735, 27656>>, <<10056, 30540>>, <<13488, 48309>>,
       <<14620, 3251>>, <<20184, 43594>>, <<23452, 51791>>, <<26670, 28659>>,
       <<29839, 33518>>, <<30885, 25455>>, <<33992, 30740>>, <<36039, 520>>,
       <<37054, 65530>>, <<42064, 27883>>, <<48889, 41975>>, <<50801, 30962>>
    >>

Sha256H0 ==
    <<
       <<27145, 58983>>, <<47975, 44677>>, <<15470, 62322>>, <<42319, 62778>>,
       <<20750, 21119>>, <<39685, 26764>>, <<8067, 55723>>, <<23520, 52505>>
    >>

\* the 32 digest bytes of message m
Sha256Compute(m) ==
    LET Pow2(n) == 2 ^ n
        RECURSIVE And16(_, _)
        And16(a, b) ==
            IF a = 0 \/ b = 0 THEN 0
            ELSE (a % 2) * (b % 2) + 2 * And16(a \div 2, b \div 2)
        RECURSIVE Xor16(_, _)
        Xor16(a, b) ==
            IF a = 0 THEN b
            ELSE IF b = 0 THEN a
            ELSE ((a + b) % 2) + 2 * Xor16(a \div 2, b \div 2)
        WAnd(u, v) == <<And16(u[1], v[1]), And16(u[2], v[2])>>
        WXor(u, v) == <<Xor16(u[1], v[1]), Xor16(u[2], v[2])>>
        WNot(u) == <<65535 - u[1], 65535 - u[2]>>
        WAdd(u, v) ==
            LET lo == u[2] + v[2]
                hi == u[1] + v[1] + (lo \div 65536)
            IN  <<hi % 65536, lo % 65536>>
        Rotr(u, n) ==
            LET v == IF n >= 16 THEN <<u[2], u[1]>> ELSE u
                k == IF n >= 16 THEN n - 16 ELSE n
            IN  <<(v[1] \div Pow2(k)) + (v[2] % Pow2(k)) * Pow2(16 - k),
                  (v[2] \div Pow2(k)) + (v[1] % Pow2(k)) * Pow2(16 - k)>>
        Shr(u, k) ==
            <<u[1] \div Pow2(k), (u[2] \div Pow2(k)) + (u[1] % Pow2(k)) * Pow2(16 - k)>>
        BigSigma0(a) == WXor(WXor(Rotr(a, 2), Rotr(a, 13)), Rotr(a, 22))
        BigSigma1(e) == WXor(WXor(Rotr(e, 6), Rotr(e, 11)), Rotr(e, 25))
        SmallSigma0(w) == WXor(WXor(Rotr(w, 7), Rotr(w, 18)), Shr(w, 3))
        SmallSigma1(w) == WXor(WXor(Rotr(w, 17), Rotr(w, 19)), Shr(w, 10))
        Ch(e, f, g) == WXor(WAnd(e, f), WAnd(WNot(e), g))
        Maj(a, b, c) == WXor(WXor(WAnd(a, b), WAnd(a, c)), WAnd(b, c))
        \* padding: 0x80, zeros up to 56 mod 64, then the bit length as 64 bits
        Sha256Pad ==
            LET n == Len(m)
                z == (119 - n) % 64
                bits == 8 * n
            IN  m \o <<128>> \o [i \in 1..z |-> 0] \o <<0, 0, 0, 0>>
                  \o <<(bits \div 16777216) % 256, (bits \div 65536) % 256,
                       (bits \div 256) % 256, bits % 256>>
        BlockWords(p, b) ==
            [j \in 1..16 |->
                LET o == 64 * (b - 1) + 4 * (j - 1)
                IN  <<p[o + 1] * 256 + p[o + 2], p[o + 3] * 256 + p[o + 4]>>]
        RECURSIVE Schedule(_)
        Schedule(w) ==
            IF Len(w) = 64 THEN w
            ELSE LET t == Len(w) + 1
                 IN  Schedule(Append(w,
                         WAdd(WAdd(w[t - 16], SmallSigma0(w[t - 15])),
                              WAdd(w[t - 7], SmallSigma1(w[t - 2])))))
        RECURSIVE Rounds(_, _, _)
        Rounds(s, w, t) ==
            IF t > 64 THEN s
            ELSE LET t1 == WAdd(WAdd(WAdd(s[8], BigSigma1(s[5])), Ch(s[5], s[6], s[7])),
                                WAdd(Sha256K[t], w[t]))
                     t2 == WAdd(BigSigma0(s[1]), Maj(s[1], s[2], s[3]))
                     ns == <<WAdd(t1, t2), s[1], s[2], s[3], WAdd(s[4], t1),
                             s[5], s[6], s[7]>>
                 IN  IF Len(ns) = 8 THEN Rounds(ns, w, t + 1) ELSE ns
        Compress256(h, w) ==
            LET s == Rounds(h, Schedule(w), 1)
            IN  [i \in 1..8 |-> WAdd(h[i], s[i])]
        RECURSIVE Blocks(_, _, _)
        Blocks(h, p, b) ==
            IF 64 * (b - 1) >= Len(p) THEN h
            ELSE Blocks(Compress256(h, BlockWords(p, b)), p, b + 1)
        h == Blocks(Sha256H0, Sha256Pad, 1)
    IN  [i \in 1..32 |->
            LET w == h[(i - 1) \div 4 + 1]
                k == (i - 1) % 4
            IN  IF k = 0 THEN w[1] \div 256
                ELSE IF k = 1 THEN w[1] % 256
                ELSE IF k = 2 THEN w[2] \div 256
                ELSE w[2] % 256]

\* the digests of the inputs, computed once: pairs <<message, digest>>
Sha256Table == {<<m, Sha256Compute(m)>> : m \in Inputs \cup ConcInputs}

Sha256(m) ==
    IF m \in Inputs \cup ConcInputs THEN (CHOOSE e \in Sha256Table : e[1] = m)[2]
    ELSE Sha256Compute(m)

\* Sha256::new(), update (through the TeeReader) and finalize: the state of
\* the hasher is the message fed so far
HasherNew == <<>>
HasherUpdate(h, bytes) == h \o bytes
HasherFinalize(h) == Sha256(h)

(***************************************************************************)
(* Lowercase hexadecimal.                                                   *)
(***************************************************************************)
HexDigits == <<"0", "1", "2", "3", "4", "5", "6", "7", "8", "9", "a", "b", "c", "d", "e", "f">>

RECURSIVE HexEncode(_)
HexEncode(d) ==
    IF d = <<>> THEN ""
    ELSE HexDigits[(Head(d) \div 16) + 1] \o HexDigits[(Head(d) % 16) + 1]
           \o HexEncode(Tail(d))

HexDigitsUpper == <<"0", "1", "2", "3", "4", "5", "6", "7", "8", "9", "A", "B", "C", "D", "E", "F">>

RECURSIVE HexEncodeUpper(_)
\* hex::encode_upper
HexEncodeUpper(d) ==
    IF d = <<>> THEN ""
    ELSE HexDigitsUpper[(Head(d) \div 16) + 1] \o HexDigitsUpper[(Head(d) % 16) + 1]
           \o HexEncodeUpper(Tail(d))

\* hex::encode(digest) in open_raw_blob
hex_encode(digest) == HexEncode(digest)

(***************************************************************************)
(* u64 values (chunk offsets) as four 16-bit limbs, most significant first. *)
(***************************************************************************)
U64(n) == <<0, 0, n \div 65536, n % 65536>>

\* 2^64 - k, for 1 <= k <= 65536
U64FromTop(k) == <<65535, 65535, 65535, 65536 - k>>

\* the sum of two u64 and whether it exceeds 2^64 - 1
U64Add(a, b) ==
    LET s4 == a[4] + b[4]
        s3 == a[3] + b[3] + (s4 \div 65536)
        s2 == a[2] + b[2] + (s3 \div 65536)
        s1 == a[1] + b[1] + (s2 \div 65536)
    IN  [sum |-> <<s1 % 65536, s2 % 65536, s3 % 65536, s4 % 65536>>,
         overflow |-> s1 >= 65536]

\* u64 as i64 is negative
U64TopBit(a) == a[1] >= 32768

\* a u64 below 2^31 as a number
U64Small(a) == a[1] = 0 /\ a[2] = 0 /\ a[3] < 32768
U64ToNat(a) == a[3] * 65536 + a[4]

(***************************************************************************)
(* Results and errors.                                                      *)
(***************************************************************************)
Ok(v) == [ok |-> TRUE, val |-> v]
Err(e) == [ok |-> FALSE, err |-> e]

\* an io::Error the operating system returned
OsError(kind) == [type |-> "io::Error", kind |-> kind, repr |-> "os"]
\* io::Error::new(kind, msg)
CustomIoError(kind, msg) == [type |-> "io::Error", kind |-> kind, repr |-> "custom", msg |-> msg]
\* a serde_json::Error
JsonError(category) == [type |-> "serde_json::Error", category |-> category]
\* a format::Error made from an io::Error by `?`
FormatIoError(e) == [type |-> "format::Error", variant |-> "IO", source |-> e]
\* the format::Error of <[u8; 32]>::try_from(chunk)
FormatConversionError == [type |-> "format::Error", variant |-> "TryFromSlice"]

(***************************************************************************)
(* Compression backends (crate compression).  Noop writes through; Rle is a *)
(* streaming run-length encoder, which can only emit its last run when it   *)
(* is finished.                                                             *)
(***************************************************************************)
Backends == {"Noop", "Rle"}

\* C::compress(file): the encoder, holding no run
compress(C) == [C |-> C, run |-> <<>>]

RECURSIVE RleFeed(_, _, _)
RleFeed(run, bytes, out) ==
    IF bytes = <<>> THEN [run |-> run, out |-> out]
    ELSE LET x == Head(bytes)
         IN  IF run = <<>> THEN RleFeed(<<1, x>>, Tail(bytes), out)
             ELSE IF run[2] = x /\ run[1] < 255
                  THEN RleFeed(<<run[1] + 1, x>>, Tail(bytes), out)
             ELSE RleFeed(<<1, x>>, Tail(bytes), out \o run)

\* Write::write_all on the encoder: the bytes it writes to the file, and the encoder after
EncoderWrite(enc, bytes) ==
    IF enc.C = "Noop" THEN [enc |-> enc, out |-> bytes]
    ELSE LET r == RleFeed(enc.run, bytes, <<>>)
         IN  [enc |-> [enc EXCEPT !.run = r.run], out |-> r.out]

\* what the encoder writes to the file when it is finished or dropped
EncoderFinish(enc) == enc.run

\* the stored bytes of input b under backend C
Stored(C, b) ==
    LET w == EncoderWrite(compress(C), b)
    IN  w.out \o EncoderFinish(w.enc)

RECURSIVE RleDecode(_)
RleDecode(data) ==
    IF data = <<>> THEN Ok(<<>>)
    ELSE IF Len(data) = 1 THEN Err(OsError("UnexpectedEof"))
    ELSE LET rest == RleDecode(Tail(Tail(data)))
         IN  IF rest.ok THEN Ok([i \in 1..data[1] |-> data[2]] \o rest.val) ELSE rest

\* C::decompress(file), read to the end
decompress(C, data) == IF C = "Noop" THEN Ok(data) ELSE RleDecode(data)

\* string-to-string maps (HashMap<String, String>)
EmptyMap == [k \in {} |-> ""]

(***************************************************************************)
(* Content descriptors (oci/src/descriptor.rs).                             *)
(***************************************************************************)
\* Descriptor::new(digest, size); an absent name is <<>>, a name n is <<n>>
DescriptorNew(digest, size) ==
    [digest |-> digest, size |-> size, name |-> <<>>, annotations |-> EmptyMap]

\* Descriptor::digest_as_str
digest_as_str(d) == HexEncode(d.digest)

\* Descriptor::set_name
set_name(d, n) == [d EXCEPT !.name = <<n>>]

(***************************************************************************)
(* State: the file system under one image root, and the clients' calls.     *)
(***************************************************************************)
VARIABLES
    inodes,      \* the files ever created: [data |-> bytes, by |-> <<input, backend>> of the put_blob that created it]
    rootDir,     \* temporary files in oci_dir: name -> inode
    blobDir,     \* oci_dir/blobs/sha256: name -> inode
    dirs,        \* how many directories of BlobPath exist, from oci_dir down
    indexFile,   \* oci_dir/index.json
    layoutFile,  \* oci_dir/oci-layout
    saved,       \* the last put_index: none yet, in progress, or the Index it saved
    call,        \* per client: the frame of its current call
    prev,        \* per client: the frame of its last put_blob that returned
    todo,        \* per client: calls it may still make
    made         \* an Image::new of this run has returned Ok and none has begun since

vars == <<inodes, rootDir, blobDir, dirs, indexFile, layoutFile, saved, call, prev, todo, made>>

\* lib.rs 64-66, blob_path(): oci_dir, and blobs/sha256 under it
BlobPath == <<"oci_dir", "blobs", "sha256">>

fsVars == <<inodes, rootDir, blobDir, dirs>>
metaVars == <<indexFile, layoutFile, saved>>

Procs == {"c1", "c2", "c3"}
Writers == {"c1", "c2"}
Readers == {"c3"}

\* the names NamedTempFile can draw
TmpNames == {".tmpA", ".tmpB"}

Idle == [op |-> "idle", pc |-> "idle"]
NoPrev == [op |-> "none"]

Put(f, k, v) == [x \in DOMAIN f \cup {k} |-> IF x = k THEN v ELSE f[x]]
Remove(f, k) == [x \in DOMAIN f \ {k} |-> f[x]]
EmptyDir == [k \in {} |-> 0]

\* write(2) at the end of inode i
AppendTo(tbl, i, bytes) == [tbl EXCEPT ![i].data = @ \o bytes]

CanCall(p) == call[p].pc \in {"idle", "returned"} /\ todo[p] > 0

\* a client starts a call: its frame replaces the one of the call before
BeginCall(p, frame) ==
    /\ CanCall(p)
    /\ call' = [call EXCEPT ![p] = frame]
    /\ prev' = [prev EXCEPT ![p] = IF call[p].op = "put_blob" /\ call[p].pc = "returned" /\ call[p].ret.ok
                                   THEN call[p] ELSE @]
    /\ todo' = [todo EXCEPT ![p] = @ - 1]
    /\ made' = (made /\ frame.op # "image_new")

(***************************************************************************)
(* Image::put_blob::<R, C>(buf), lib.rs 68-81.                              *)
(***************************************************************************)
\* the files of blobs/sha256 and their bytes
BlobFiles == [n \in DOMAIN blobDir |-> inodes[blobDir[n]].data]

\* `before` is what blobs/sha256 held when the call was made
PutBlobCall(p, b, C) ==
    /\ BeginCall(p, [op |-> "put_blob", pc |-> "new_in", buf |-> b, C |-> C,
                     pos |-> 0, tmp |-> "", ino |-> 0, enc |-> compress(C),
                     hasher |-> HasherNew, size |-> 0,
                     desc |-> DescriptorNew(<<>>, 0), before |-> BlobFiles])
    /\ UNCHANGED <<fsVars, metaVars>>

\* names for a temporary file that is created without create_new
AnyTmpNames == TmpNames

\* the names NamedTempFile::new_in may create: create_new fails on a name in use
FreshTmpNames == TmpNames \ DOMAIN rootDir

\* lines 69-71: the temporary file in oci_dir, reopened for the encoder
\* the frame of a put_blob that returned error e: `?` returns early and the
\* locals are dropped
PutBlobFailed(fr, e) ==
    [op |-> "put_blob", pc |-> "returned", buf |-> fr.buf, C |-> fr.C,
     ret |-> Err(e), names |-> DOMAIN blobDir, before |-> fr.before,
     at |-> fr.pc]

NewTempFile(p) ==
    /\ call[p].op = "put_blob" /\ call[p].pc = "new_in"
    /\ IF dirs = 0
       \* without oci_dir the open(2) of the temporary file fails with ENOENT
       THEN /\ call' = [call EXCEPT ![p] = PutBlobFailed(@, OsError("NotFound"))]
            /\ UNCHANGED <<inodes, rootDir>>
       ELSE \E n \in FreshTmpNames :
              /\ inodes' = Append(inodes, [data |-> <<>>, by |-> <<call[p].buf, call[p].C>>])
              /\ rootDir' = Put(rootDir, n, Len(inodes) + 1)
              /\ call' = [call EXCEPT ![p].tmp = n, ![p].ino = Len(inodes) + 1,
                                      ![p].pc = "copy"]
    /\ UNCHANGED <<blobDir, dirs, metaVars, prev, todo, made>>

\* a tee on the encoder's output: the hasher is fed what the encoder wrote
TeeBytesWritten(chunk, written) == written

\* a count of the bytes written to the file
CopiedCountWritten(chunk, written) == Len(written)

\* what the TeeReader writes to the hasher for a chunk read from buf, of
\* which the encoder wrote `written` to the file
TeeBytes(chunk, written) == chunk

\* what io::copy adds to its count for that chunk
CopiedCount(chunk, written) == Len(chunk)

\* lines 73-74, one round of io::copy: read a chunk through the tee, write_all
\* it to the encoder
CopyStep(p) ==
    /\ call[p].op = "put_blob" /\ call[p].pc = "copy"
    /\ call[p].pos < Len(call[p].buf)
    /\ \E k \in 1..(Len(call[p].buf) - call[p].pos) :
         LET chunk == SubSeqFrom(call[p].buf, call[p].pos, k)
             w == EncoderWrite(call[p].enc, chunk)
         IN  /\ inodes' = AppendTo(inodes, call[p].ino, w.out)
             /\ call' = [call EXCEPT
                           ![p].pos = @ + k,
                           ![p].enc = w.enc,
                           ![p].hasher = HasherUpdate(@, TeeBytes(chunk, w.out)),
                           ![p].size = @ + CopiedCount(chunk, w.out)]
    /\ UNCHANGED <<rootDir, blobDir, dirs, metaVars, prev, todo, made>>

\* lines 74-77: the read that returns 0 ends io::copy; the digest and the descriptor
CopyEof(p) ==
    /\ call[p].op = "put_blob" /\ call[p].pc = "copy"
    /\ call[p].pos = Len(call[p].buf)
    /\ call' = [call EXCEPT
                  ![p].desc = DescriptorNew(HasherFinalize(call[p].hasher), call[p].size),
                  ![p].pc = "persist"]
    /\ UNCHANGED <<fsVars, metaVars, prev, todo, made>>

\* the path tmp.persist renames to
PersistName(desc) == digest_as_str(desc)

\* persist_noclobber, which fails on a name that exists
PersistNoClobber(p) ==
    /\ call[p].op = "put_blob" /\ call[p].pc = "persist"
    /\ IF PersistName(call[p].desc) \in DOMAIN blobDir
       THEN /\ call' = [call EXCEPT ![p] = [op |-> "put_blob", pc |-> "returned",
                                            buf |-> call[p].buf, C |-> call[p].C,
                                            ret |-> Err(OsError("AlreadyExists")),
                                            names |-> DOMAIN blobDir]]
            /\ blobDir' = blobDir
       ELSE /\ call' = [call EXCEPT ![p].pc = "drop"]
            /\ blobDir' = Put(blobDir, PersistName(call[p].desc), rootDir[call[p].tmp])
    /\ rootDir' = Remove(rootDir, call[p].tmp)
    /\ UNCHANGED <<inodes, dirs, metaVars, prev, todo, made>>

\* line 79: rename(2) of the temporary file onto blobs/sha256/<hex digest>
\* Without the directory blobs/sha256 the rename fails with ENOENT: the
\* PersistError turns into its io::Error, which drops (removes) the file.
Persist(p) ==
    /\ call[p].op = "put_blob" /\ call[p].pc = "persist"
    /\ IF dirs = Len(BlobPath)
       THEN /\ blobDir' = Put(blobDir, PersistName(call[p].desc), rootDir[call[p].tmp])
            /\ call' = [call EXCEPT ![p].pc = "drop"]
       ELSE /\ blobDir' = blobDir
            /\ call' = [call EXCEPT ![p] = PutBlobFailed(@, OsError("NotFound"))]
    /\ rootDir' = Remove(rootDir, call[p].tmp)
    /\ UNCHANGED <<inodes, dirs, metaVars, prev, todo, made>>

\* lines 80-81: Ok(descriptor); the locals are dropped as the function
\* returns, `compressed` among them, which finishes the encoder
PutBlobReturn(p) ==
    /\ call[p].op = "put_blob" /\ call[p].pc = "drop"
    /\ inodes' = AppendTo(inodes, call[p].ino, EncoderFinish(call[p].enc))
    /\ call' = [call EXCEPT ![p] = [op |-> "put_blob", pc |-> "returned",
                                    buf |-> call[p].buf, C |-> call[p].C,
                                    ret |-> Ok(call[p].desc),
                                    names |-> DOMAIN blobDir]]
    /\ UNCHANGED <<rootDir, blobDir, dirs, metaVars, prev, todo, made>>

\* the kinds of io::Error the operating system answers a call with
IoErrorKinds == {"PermissionDenied", "StorageFull"}

\* put_blob with a step that can fail after the rename
PutBlobFailLate(p) ==
    /\ call[p].op = "put_blob" /\ call[p].pc \in {"new_in", "copy", "persist", "drop"}
    /\ \E kind \in IoErrorKinds :
         call' = [call EXCEPT ![p] = PutBlobFailed(@, OsError(kind))]
    /\ IF call[p].pc = "new_in"
       THEN UNCHANGED <<inodes, rootDir>>
       ELSE /\ inodes' = AppendTo(inodes, call[p].ino, EncoderFinish(call[p].enc))
            /\ rootDir' = Remove(rootDir, call[p].tmp)
    /\ UNCHANGED <<blobDir, dirs, metaVars, prev, todo, made>>

\* put_blob on a plain file in oci_dir, which no drop removes
PutBlobFailKeep(p) ==
    /\ call[p].op = "put_blob" /\ call[p].pc \in {"new_in", "copy", "persist"}
    /\ \E kind \in IoErrorKinds :
         call' = [call EXCEPT ![p] = PutBlobFailed(@, OsError(kind))]
    /\ IF call[p].pc = "new_in"
       THEN UNCHANGED inodes
       ELSE inodes' = AppendTo(inodes, call[p].ino, EncoderFinish(call[p].enc))
    /\ UNCHANGED <<rootDir, blobDir, dirs, metaVars, prev, todo, made>>

\* A step of put_blob fails: line 69 (no temporary file is made), line 70
\* (reopen), line 74 (a read of buf or a write_all to the encoder, other than
\* the Interrupted that io::copy retries) or line 79 (rename).  `?` returns
\* the error; of the locals `compressed` is dropped first, then `tmp`, whose
\* drop removes the temporary file.
PutBlobFail(p) ==
    /\ call[p].op = "put_blob" /\ call[p].pc \in {"new_in", "copy", "persist"}
    /\ \E kind \in IoErrorKinds :
         call' = [call EXCEPT ![p] = PutBlobFailed(@, OsError(kind))]
    /\ IF call[p].pc = "new_in"
       THEN UNCHANGED <<inodes, rootDir>>
       ELSE /\ inodes' = AppendTo(inodes, call[p].ino, EncoderFinish(call[p].enc))
            /\ rootDir' = Remove(rootDir, call[p].tmp)
    /\ UNCHANGED <<blobDir, dirs, metaVars, prev, todo, made>>

PutBlobStep(p) ==
    \/ NewTempFile(p)
    \/ CopyStep(p)
    \/ CopyEof(p)
    \/ Persist(p)
    \/ PutBlobReturn(p)

(***************************************************************************)
(* Image::open_raw_blob and Image::open_compressed_blob::<C>, lib.rs 83-93, *)
(* and the caller's read of the opened blob to its end.  The mode of a read *)
(* is "raw" (the fs::File itself) or the backend C that decodes it.         *)
(* Image::open_metadata_blob::<C>, lib.rs 95-101, opens the file by the     *)
(* same open_raw_blob(digest)? and hands it to the decoder of C inside a    *)
(* MetadataBlob: mode C stands for both.                                    *)
(***************************************************************************)
ReadModes == {"raw"} \cup Backends

OpenBlobCall(p, digest, mode) ==
    /\ BeginCall(p, [op |-> "open_blob", pc |-> "open", digest |-> digest,
                     mode |-> mode, ino |-> 0])
    /\ UNCHANGED <<fsVars, metaVars>>

\* line 84: fs::File::open(blob_path().join(hex::encode(digest)))
open_raw_blob(digest) ==
    IF hex_encode(digest) \in DOMAIN blobDir
    THEN Ok(blobDir[hex_encode(digest)])
    ELSE Err(OsError("NotFound"))

OpenBlobOpen(p) ==
    /\ call[p].op = "open_blob" /\ call[p].pc = "open"
    /\ LET f == open_raw_blob(call[p].digest)
       IN  call' = [call EXCEPT ![p] =
                      IF f.ok THEN [@ EXCEPT !.ino = f.val, !.pc = "read"]
                      ELSE [op |-> "open_blob", pc |-> "returned",
                            digest |-> call[p].digest, mode |-> call[p].mode,
                            ino |-> 0, ret |-> f]]
    /\ UNCHANGED <<fsVars, metaVars, prev, todo, made>>

\* the bytes a reader of an open file gets up to its end
ReadAll(ino) == inodes[ino].data

OpenBlobRead(p) ==
    /\ call[p].op = "open_blob" /\ call[p].pc = "read"
    /\ call' = [call EXCEPT ![p] =
                  [op |-> "open_blob", pc |-> "returned",
                   digest |-> call[p].digest, mode |-> call[p].mode,
                   ino |-> call[p].ino,
                   ret |-> IF call[p].mode = "raw" THEN Ok(ReadAll(call[p].ino))
                           ELSE decompress(call[p].mode, ReadAll(call[p].ino))]]
    /\ UNCHANGED <<fsVars, metaVars, prev, todo, made>>

(***************************************************************************)
(* Image::fill_from_chunk(chunk, addl_offset, buf), lib.rs 103-114.         *)
(***************************************************************************)
FillCall(p, chunk, addl, buflen) ==
    /\ BeginCall(p, [op |-> "fill_from_chunk", pc |-> "open", chunk |-> chunk,
                     addl |-> addl, buflen |-> buflen, ino |-> 0])
    /\ UNCHANGED <<fsVars, metaVars>>

FillReturned(fr, ret, out) ==
    [op |-> "fill_from_chunk", pc |-> "returned", chunk |-> fr.chunk,
     addl |-> fr.addl, buflen |-> fr.buflen, ino |-> fr.ino, ret |-> ret,
     out |-> out]

\* a conversion that takes the digest bytes as they are, whatever their number
DigestTryFromAny(chunk) == Ok(chunk.digest)

\* line 109: <[u8; 32]>::try_from(chunk)
DigestTryFrom(chunk) ==
    IF Len(chunk.digest) = 32 THEN Ok(chunk.digest) ELSE Err(FormatConversionError)

\* lines 109-110
FillOpen(p) ==
    /\ call[p].op = "fill_from_chunk" /\ call[p].pc = "open"
    /\ LET d == DigestTryFrom(call[p].chunk)
           f == IF d.ok THEN open_raw_blob(d.val) ELSE d
       IN  call' = [call EXCEPT ![p] =
                      IF ~d.ok THEN FillReturned(@, d, <<>>)
                      ELSE IF ~f.ok THEN FillReturned(@, Err(FormatIoError(f.err)), <<>>)
                      ELSE [@ EXCEPT !.ino = f.val, !.pc = "seek"]]
    /\ UNCHANGED <<fsVars, metaVars, prev, todo, made>>

\* line 111, chunk.offset + addl_offset on u64: the outcomes of the builds.
\* With overflow checks the addition panics; without, it wraps.
SeekTargets(offset, addl) ==
    LET s == U64Add(offset, addl)
    IN  IF s.overflow THEN {[panic |-> TRUE, pos |-> s.sum], [panic |-> FALSE, pos |-> s.sum]}
        ELSE {[panic |-> FALSE, pos |-> s.sum]}

\* line 112, File::read at position pos of inode ino into a buffer of buflen bytes
ReadAt(ino, pos, buflen) ==
    LET data == inodes[ino].data
    IN  IF ~U64Small(pos) \/ U64ToNat(pos) >= Len(data) THEN <<>>
        ELSE SubSeqFrom(data, U64ToNat(pos), Min(buflen, Len(data) - U64ToNat(pos)))

\* lines 111-113: seek and one read
FillSeekRead(p) ==
    /\ call[p].op = "fill_from_chunk" /\ call[p].pc = "seek"
    /\ \E t \in SeekTargets(call[p].chunk.offset, call[p].addl) :
         call' = [call EXCEPT ![p] =
                    IF t.panic
                    THEN [FillReturned(@, Err([type |-> "panic"]), <<>>) EXCEPT !.pc = "panicked"]
                    \* lseek takes the position as an i64: a negative one is EINVAL
                    ELSE IF U64TopBit(t.pos)
                    THEN FillReturned(@, Err(FormatIoError(OsError("InvalidInput"))), <<>>)
                    ELSE LET got == ReadAt(call[p].ino, t.pos, call[p].buflen)
                         IN  FillReturned(@, Ok(Len(got)), got)]
    /\ UNCHANGED <<fsVars, metaVars, prev, todo, made>>

ReadStep(p) ==
    \/ OpenBlobOpen(p)
    \/ OpenBlobRead(p)
    \/ FillOpen(p)
    \/ FillSeekRead(p)

(***************************************************************************)
(* JSON text (serde_json), as a sequence of tokens: punctuation, strings,   *)
(* numbers, null, and the NUL a hole in a file reads as.                    *)
(***************************************************************************)
P(s) == [t |-> "p", s |-> s, n |-> 0]
S(s) == [t |-> "str", s |-> s, n |-> 0]
N(n) == [t |-> "num", s |-> "", n |-> n]
NullTok == [t |-> "null", s |-> "", n |-> 0]
NulByte == [t |-> "nul", s |-> "", n |-> 0]
EofTok == [t |-> "eof", s |-> "", n |-> 0]

\* the texts of a string-to-string map: a HashMap is iterated in any order
MapTexts(m) ==
    LET RECURSIVE Orders(_)
        Orders(keys) ==
            IF keys = {} THEN {<<>>}
            ELSE UNION {{<<k>> \o o : o \in Orders(keys \ {k})} : k \in keys}
        RECURSIVE MapEntries(_)
        MapEntries(order) ==
            IF order = <<>> THEN <<>>
            ELSE <<S(Head(order)), P(":"), S(m[Head(order)])>>
                   \o (IF Len(order) > 1 THEN <<P(",")>> ELSE <<>>)
                   \o MapEntries(Tail(order))
    IN  {<<P("{")>> \o MapEntries(o) \o <<P("}")>> : o \in Orders(DOMAIN m)}

\* the texts of a Descriptor (descriptor.rs): digest as lowercase hex, size,
\* name (null when absent), annotations
DescriptorTexts(d) ==
    {<<P("{"), S("digest"), P(":"), S(HexEncode(d.digest)), P(","),
       S("size"), P(":"), N(d.size), P(","),
       S("name"), P(":")>>
       \o (IF d.name = <<>> THEN <<NullTok>> ELSE <<S(d.name[1])>>)
       \o <<P(","), S("annotations"), P(":")>> \o a \o <<P("}")>>
     : a \in MapTexts(d.annotations)}

\* index.rs 20-26, serde_json::to_writer of an Index: the texts it can write
IndexTexts(i) ==
    LET RECURSIVE ManifestsEntries(_)
        ManifestsEntries(ms) ==
            IF ms = <<>> THEN {<<>>}
            ELSE {d \o (IF Len(ms) > 1 THEN <<P(",")>> ELSE <<>>) \o r :
                    d \in DescriptorTexts(Head(ms)), r \in ManifestsEntries(Tail(ms))}
    IN  {<<P("{"), S("schemaVersion"), P(":"), N(i.version), P(","),
           S("manifests"), P(":"), P("[")>> \o ms \o <<P("]"), P(","),
           S("annotations"), P(":")>> \o a \o <<P("}")>>
         : ms \in ManifestsEntries(i.manifests), a \in MapTexts(i.annotations)}

\* lib.rs 29-33, serde_json::to_writer of an OCILayout
LayoutText(version) == <<P("{"), S("imageLayoutVersion"), P(":"), S(version), P("}")>>

(***************************************************************************)
(* The JSON parser (serde_json::from_reader up to the value): the value,    *)
(* then nothing but the end, or the category of the serde_json error.       *)
(***************************************************************************)
ParseJson(ts) ==
    LET Tok(i) == IF i > Len(ts) THEN EofTok ELSE ts[i]
        IsP(tk, s) == tk.t = "p" /\ tk.s = s
        POk(v, next) == [ok |-> TRUE, val |-> v, next |-> next]
        PErr(cat) == [ok |-> FALSE, cat |-> cat]
        PBad(tk) == IF tk.t = "eof" THEN PErr("Eof") ELSE PErr("Syntax")
        \* an array or an object being read: its items or fields so far, and
        \* the key whose value is being read
        Open(k, elems, key) == [k |-> k, elems |-> elems, key |-> key]
        Push(stack, c) == <<c>> \o stack
        \* the key and the colon at i, i + 1 of an object
        KeyAt(i) ==
            IF Tok(i).t # "str" THEN PBad(Tok(i))
            ELSE IF ~IsP(Tok(i + 1), ":") THEN PBad(Tok(i + 1))
            ELSE POk(Tok(i).s, i + 2)
        \* the parser at token i, inside the containers of `stack` (innermost
        \* first); `done` holds the value that ends just before i, if any
        RECURSIVE ParseValue(_, _, _)
        ParseValue(i, stack, done) ==
            LET tk == Tok(i)
            IN  IF done = <<>>
                THEN IF tk.t = "str"
                     THEN ParseValue(i + 1, stack, <<[k |-> "str", s |-> tk.s]>>)
                     ELSE IF tk.t = "num"
                          THEN ParseValue(i + 1, stack, <<[k |-> "num", n |-> tk.n]>>)
                     ELSE IF tk.t = "null"
                          THEN ParseValue(i + 1, stack, <<[k |-> "null"]>>)
                     ELSE IF IsP(tk, "[")
                          THEN IF IsP(Tok(i + 1), "]")
                               THEN ParseValue(i + 2, stack,
                                               <<[k |-> "arr", items |-> <<>>]>>)
                               ELSE ParseValue(i + 1, Push(stack, Open("arr", <<>>, "")),
                                               <<>>)
                     ELSE IF IsP(tk, "{")
                          THEN IF IsP(Tok(i + 1), "}")
                               THEN ParseValue(i + 2, stack,
                                               <<[k |-> "obj", fields |-> <<>>]>>)
                               ELSE LET key == KeyAt(i + 1)
                                    IN  IF ~key.ok THEN key
                                        ELSE ParseValue(key.next,
                                                 Push(stack, Open("obj", <<>>, key.val)),
                                                 <<>>)
                     ELSE PBad(tk)
                ELSE IF stack = <<>> THEN POk(done[1], i)
                ELSE IF Head(stack).k = "arr"
                     THEN LET items == Append(Head(stack).elems, done[1])
                          IN  IF IsP(tk, ",")
                              THEN ParseValue(i + 1,
                                              Push(Tail(stack), Open("arr", items, "")),
                                              <<>>)
                              ELSE IF IsP(tk, "]")
                                   THEN ParseValue(i + 1, Tail(stack),
                                                   <<[k |-> "arr", items |-> items]>>)
                              ELSE PBad(tk)
                ELSE LET fields == Append(Head(stack).elems,
                                          [key |-> Head(stack).key, val |-> done[1]])
                     IN  IF IsP(tk, ",")
                         THEN LET key == KeyAt(i + 1)
                              IN  IF ~key.ok THEN key
                                  ELSE ParseValue(key.next,
                                           Push(Tail(stack), Open("obj", fields, key.val)),
                                           <<>>)
                         ELSE IF IsP(tk, "}")
                              THEN ParseValue(i + 1, Tail(stack),
                                              <<[k |-> "obj", fields |-> fields]>>)
                         ELSE PBad(tk)
        v == ParseValue(1, <<>>, <<>>)
    IN  IF ~v.ok THEN v
        ELSE IF v.next <= Len(ts) THEN PErr("Syntax")
        ELSE v

(***************************************************************************)
(* Deserialize, as serde derives it: a struct is read from an object, a     *)
(* field that is missing, repeated or of the wrong type is a Data error,    *)
(* fields it does not know are skipped.                                     *)
(***************************************************************************)
DataError == Err(JsonError("Data"))

FieldVals(v, name) == SelectSeq(v.fields, LAMBDA f : f.key = name)

\* the one value of field `name` of object v
HasField(v, name) == Len(FieldVals(v, name)) = 1
Field(v, name) == FieldVals(v, name)[1].val

\* lib.rs 138: DIGEST, the digest of "meshuggah rocks", as bytes
MeshuggahDigest ==
    <<58, 189, 92, 224, 249, 31, 100, 13, 136, 220, 161, 242, 107, 55, 3, 123,
      2, 65, 89, 39, 202, 206, 201, 98, 109, 135, 102, 138, 113, 94, 193, 45>>
\* the digests of "0" and of the empty input
ZeroDigest ==
    <<95, 236, 235, 102, 255, 200, 111, 56, 217, 82, 120, 108, 109, 105, 108, 121,
      194, 219, 194, 57, 221, 78, 145, 180, 103, 41, 215, 58, 39, 251, 87, 233>>
EmptyDigest ==
    <<227, 176, 196, 66, 152, 252, 28, 20, 154, 251, 244, 200, 153, 111, 185, 36,
      39, 174, 65, 228, 100, 155, 147, 76, 164, 149, 153, 27, 120, 82, 184, 85>>

\* the digests the descriptors of an index name, with their hex
HexTable == {<<d, HexEncode(d)>> : d \in {MeshuggahDigest, ZeroDigest, EmptyDigest}}

\* the digest of the table entries `hits`, if there is one
DigestOf(hits) == IF hits = {} THEN DataError ELSE Ok((CHOOSE e \in hits : TRUE)[1])

\* the digest a lowercase hex string denotes
HexDecode(s) == DigestOf({e \in HexTable : e[2] = s})

\* HashMap<String, String>: a repeated key keeps its last value
StringMapFromJson(v) ==
    IF v.k # "obj" THEN DataError
    ELSE IF \E i \in 1..Len(v.fields) : v.fields[i].val.k # "str" THEN DataError
    ELSE Ok([key \in {v.fields[i].key : i \in 1..Len(v.fields)} |->
                LET last == CHOOSE i \in 1..Len(v.fields) :
                              /\ v.fields[i].key = key
                              /\ \A j \in (i + 1)..Len(v.fields) : v.fields[j].key # key
                IN  v.fields[last].val.s])

\* the Descriptor of fields that were read
DescriptorOf(digest, size, name, ann) ==
    IF ~digest.ok \/ ~ann.ok THEN DataError
    ELSE Ok([digest |-> digest.val, size |-> size, name |-> name, annotations |-> ann.val])

DescriptorFromJson(v) ==
    IF v.k # "obj" THEN DataError
    ELSE IF ~HasField(v, "digest") \/ ~HasField(v, "size") \/ ~HasField(v, "annotations")
              \/ Len(FieldVals(v, "name")) > 1
         THEN DataError
    ELSE IF Field(v, "digest").k # "str" \/ Field(v, "size").k # "num" THEN DataError
    ELSE IF Field(v, "size").n < 0 THEN DataError
    ELSE IF FieldVals(v, "name") # <<>> /\ Field(v, "name").k \notin {"str", "null"}
         THEN DataError
    ELSE DescriptorOf(HexDecode(Field(v, "digest").s),
                      Field(v, "size").n,
                      IF FieldVals(v, "name") # <<>> /\ Field(v, "name").k = "str"
                      THEN <<Field(v, "name").s>> ELSE <<>>,
                      StringMapFromJson(Field(v, "annotations")))

\* the Index of fields that were read
IndexOf(version, ds, ann) ==
    IF ~ann.ok \/ \E j \in 1..Len(ds) : ~ds[j].ok THEN DataError
    ELSE Ok([version |-> version,
             manifests |-> [j \in 1..Len(ds) |-> ds[j].val],
             annotations |-> ann.val])

\* index.rs 20-26
IndexFromJson(v) ==
    IF v.k # "obj" THEN DataError
    ELSE IF ~HasField(v, "schemaVersion") \/ ~HasField(v, "manifests")
              \/ ~HasField(v, "annotations")
         THEN DataError
    ELSE IF Field(v, "schemaVersion").k # "num" \/ Field(v, "manifests").k # "arr"
         THEN DataError
    ELSE IndexOf(Field(v, "schemaVersion").n,
                 [j \in 1..Len(Field(v, "manifests").items) |->
                     DescriptorFromJson(Field(v, "manifests").items[j])],
                 StringMapFromJson(Field(v, "annotations")))

\* lib.rs 29-33
LayoutFromJson(v) ==
    IF v.k # "obj" THEN DataError
    ELSE IF ~HasField(v, "imageLayoutVersion") THEN DataError
    ELSE IF Field(v, "imageLayoutVersion").k # "str" THEN DataError
    ELSE Ok([version |-> Field(v, "imageLayoutVersion").s])

\* serde_json::from_reader::<_, Index> on the text read
IndexFromReader(ts) ==
    LET v == ParseJson(ts)
    IN  IF v.ok THEN IndexFromJson(v.val) ELSE Err(JsonError(v.cat))

\* serde_json::from_reader::<_, OCILayout> on the text read
LayoutFromReader(ts) ==
    LET v == ParseJson(ts)
    IN  IF v.ok THEN LayoutFromJson(v.val) ELSE Err(JsonError(v.cat))

(***************************************************************************)
(* The JSON files of the root: absent, unreadable, or their text.           *)
(***************************************************************************)
NoFile == [exists |-> FALSE, readable |-> FALSE, data |-> <<>>]
Denied == [exists |-> TRUE, readable |-> FALSE, data |-> <<>>]
FileOf(text) == [exists |-> TRUE, readable |-> TRUE, data |-> text]

\* fs::File::open(path): the error, if any
OpenError(file) ==
    IF ~file.exists THEN <<OsError("NotFound")>>
    ELSE IF ~file.readable THEN <<OsError("PermissionDenied")>>
    ELSE <<>>

\* a create that opens the file for writing and keeps what it holds
CreateFileKeep(file) == FileOf(file.data)

\* fs::File::create(path) on a file it may write: the file is truncated
CreateFile(file) == FileOf(<<>>)

\* write_all of one token at offset off (a hole before it reads as NULs)
WriteAt(data, off, tok) ==
    [i \in 1..(IF off + 1 > Len(data) THEN off + 1 ELSE Len(data)) |->
        IF i = off + 1 THEN tok
        ELSE IF i <= Len(data) THEN data[i]
        ELSE NulByte]

(***************************************************************************)
(* Index (index.rs).                                                        *)
(***************************************************************************)
\* Index::default, index.rs 28-36
IndexDefault == [version |-> PUZZLEFS_SCHEMA_VERSION, manifests |-> <<>>, annotations |-> EmptyMap]

\* the last save: its Index, how far it got ("saving", "done", or "mixed" when
\* it began while another save was writing), the length of the file it found,
\* and how many saves have begun
NoSave == [state |-> "none", index |-> IndexDefault, before |-> 0, gen |-> 0]

\* a check that lets every version pass
SchemaVersionAny(v) == TRUE

\* the check of index.rs 42
SchemaVersionOk(v) == v = PUZZLEFS_SCHEMA_VERSION

\* index.rs 43-46
BadSchemaVersion(v) == CustomIoError("Other", "bad schema version " \o ToString(v))

\* Image::put_index(i), lib.rs 120-122: Index::write, index.rs 52-56
PutIndexCall(p, i) ==
    /\ \E text \in IndexTexts(i) :
         BeginCall(p, [op |-> "put_index", pc |-> "create", index |-> i,
                       text |-> text, off |-> 0])
    /\ UNCHANGED <<fsVars, metaVars>>

PutIndexReturned(fr, ret) ==
    [op |-> "put_index", pc |-> "returned", index |-> fr.index, ret |-> ret]

\* index.rs 53: fs::File::create(p)
PutIndexCreate(p) ==
    /\ call[p].op = "put_index" /\ call[p].pc = "create"
    /\ IF indexFile.exists /\ ~indexFile.readable
       THEN /\ call' = [call EXCEPT ![p] =
                          PutIndexReturned(@, Err(OsError("PermissionDenied")))]
            /\ UNCHANGED <<indexFile, saved>>
       ELSE /\ indexFile' = CreateFile(indexFile)
            /\ saved' = [state |-> IF \E q \in Procs \ {p} :
                                         call[q].op = "put_index" /\ call[q].pc = "write"
                                    THEN "mixed" ELSE "saving",
                          index |-> call[p].index, before |-> Len(indexFile.data),
                          gen |-> saved.gen + 1]
            /\ call' = [call EXCEPT ![p].pc = "write"]
    /\ UNCHANGED <<fsVars, layoutFile, prev, todo, made>>

\* index.rs 54: serde_json::to_writer writes the text piece by piece
PutIndexWrite(p) ==
    /\ call[p].op = "put_index" /\ call[p].pc = "write"
    /\ call[p].off < Len(call[p].text)
    /\ indexFile' = [indexFile EXCEPT
                       !.data = WriteAt(@, call[p].off, call[p].text[call[p].off + 1])]
    /\ call' = [call EXCEPT ![p].off = @ + 1]
    /\ UNCHANGED <<fsVars, layoutFile, saved, prev, todo, made>>

\* an Index::write that returns with its last piece still in a buffer
PutIndexReturnEarly(p) ==
    /\ call[p].op = "put_index" /\ call[p].pc = "write"
    /\ call[p].off >= Len(call[p].text) - 1
    /\ saved' = [saved EXCEPT !.state = IF @ = "saving" THEN "done" ELSE @]
    /\ call' = [call EXCEPT ![p] = PutIndexReturned(@, Ok(<<>>))]
    /\ UNCHANGED <<fsVars, indexFile, layoutFile, prev, todo, made>>

\* index.rs 55
PutIndexReturn(p) ==
    /\ call[p].op = "put_index" /\ call[p].pc = "write"
    /\ call[p].off = Len(call[p].text)
    /\ saved' = [saved EXCEPT !.state = IF @ = "saving" THEN "done" ELSE @]
    /\ call' = [call EXCEPT ![p] = PutIndexReturned(@, Ok(<<>>))]
    /\ UNCHANGED <<fsVars, indexFile, layoutFile, prev, todo, made>>

\* Image::get_index(), lib.rs 116-118: Index::open, index.rs 39-50
GetIndexCall(p) ==
    /\ BeginCall(p, [op |-> "get_index", pc |-> "open", off |-> 0, got |-> <<>>,
                     seen |-> saved])
    /\ UNCHANGED <<fsVars, metaVars>>

GetIndexReturned(fr, ret) ==
    [op |-> "get_index", pc |-> "returned", got |-> fr.got, seen |-> fr.seen,
     ret |-> ret]

\* index.rs 40: fs::File::open(p)
GetIndexOpen(p) ==
    /\ call[p].op = "get_index" /\ call[p].pc = "open"
    /\ call' = [call EXCEPT ![p] =
                  IF OpenError(indexFile) # <<>>
                  THEN GetIndexReturned(@, Err(OpenError(indexFile)[1]))
                  ELSE [@ EXCEPT !.pc = "read"]]
    /\ UNCHANGED <<fsVars, metaVars, prev, todo, made>>

\* index.rs 41: from_reader reads the file piece by piece
GetIndexRead(p) ==
    /\ call[p].op = "get_index" /\ call[p].pc = "read"
    /\ call[p].off < Len(indexFile.data)
    /\ call' = [call EXCEPT ![p].got = Append(@, indexFile.data[call[p].off + 1]),
                            ![p].off = @ + 1]
    /\ UNCHANGED <<fsVars, metaVars, prev, todo, made>>

\* index.rs 41-49 on the text read
IndexOpenResult(text) ==
    LET index == IndexFromReader(text)
    IN  IF ~index.ok THEN index
        ELSE IF ~SchemaVersionOk(index.val.version)
             THEN Err(BadSchemaVersion(index.val.version))
        ELSE index

\* index.rs 41-49: the read that returns 0, the value, the version check
GetIndexEof(p) ==
    /\ call[p].op = "get_index" /\ call[p].pc = "read"
    /\ call[p].off >= Len(indexFile.data)
    /\ call' = [call EXCEPT ![p] = GetIndexReturned(@, IndexOpenResult(call[p].got))]
    /\ UNCHANGED <<fsVars, metaVars, prev, todo, made>>

(***************************************************************************)
(* Image::open(oci_dir), lib.rs 51-62.                                      *)
(***************************************************************************)
\* the check of lib.rs 54
LayoutVersionOk(v) == v = PUZZLEFS_IMAGE_LAYOUT_VERSION

\* lib.rs 55-58
BadLayoutVersion(v) == CustomIoError("Other", "bad image layout version " \o v)

ImageOpenCall(p) ==
    /\ BeginCall(p, [op |-> "image_open", pc |-> "open", off |-> 0, got |-> <<>>])
    /\ UNCHANGED <<fsVars, metaVars>>

ImageOpenReturned(fr, ret) ==
    [op |-> "image_open", pc |-> "returned", got |-> fr.got, ret |-> ret]

\* lib.rs 52
ImageOpenOpen(p) ==
    /\ call[p].op = "image_open" /\ call[p].pc = "open"
    /\ call' = [call EXCEPT ![p] =
                  IF OpenError(layoutFile) # <<>>
                  THEN ImageOpenReturned(@, Err(OpenError(layoutFile)[1]))
                  ELSE [@ EXCEPT !.pc = "read"]]
    /\ UNCHANGED <<fsVars, metaVars, prev, todo, made>>

\* lib.rs 53
ImageOpenRead(p) ==
    /\ call[p].op = "image_open" /\ call[p].pc = "read"
    /\ call[p].off < Len(layoutFile.data)
    /\ call' = [call EXCEPT ![p].got = Append(@, layoutFile.data[call[p].off + 1]),
                            ![p].off = @ + 1]
    /\ UNCHANGED <<fsVars, metaVars, prev, todo, made>>

\* lib.rs 53-61 on the text read: Ok(Image { oci_dir }) is Ok("Image")
ImageOpenResult(text) ==
    LET layout == LayoutFromReader(text)
    IN  IF ~layout.ok THEN layout
        ELSE IF ~LayoutVersionOk(layout.val.version)
             THEN Err(BadLayoutVersion(layout.val.version))
        ELSE Ok("Image")

ImageOpenEof(p) ==
    /\ call[p].op = "image_open" /\ call[p].pc = "read"
    /\ call[p].off >= Len(layoutFile.data)
    /\ call' = [call EXCEPT ![p] = ImageOpenReturned(@, ImageOpenResult(call[p].got))]
    /\ UNCHANGED <<fsVars, metaVars, prev, todo, made>>

MetaStep(p) ==
    \/ PutIndexCreate(p)
    \/ PutIndexWrite(p)
    \/ PutIndexReturn(p)
    \/ GetIndexOpen(p)
    \/ GetIndexRead(p)
    \/ GetIndexEof(p)
    \/ ImageOpenOpen(p)
    \/ ImageOpenRead(p)
    \/ ImageOpenEof(p)

(***************************************************************************)
(* Image::new(oci_dir), lib.rs 40-49.                                       *)
(***************************************************************************)
\* an Image::new that creates the marker file before the directories
ImageNewFirstMarker == "create"

\* line 42 comes first: fs::create_dir_all(image.blob_path())
ImageNewFirst == "mkdir"

\* a layout of another version
NewLayoutOther == [version |-> "1.0.0"]

\* lines 44-46: the OCILayout that is written
NewLayout == [version |-> PUZZLEFS_IMAGE_LAYOUT_VERSION]

\* `dirsDone` and `written`: the directories are made, the layout is written
ImageNewCall(p) ==
    /\ BeginCall(p, [op |-> "image_new", pc |-> ImageNewFirst,
                     text |-> LayoutText(NewLayout.version), off |-> 0,
                     dirsDone |-> FALSE, written |-> FALSE])
    /\ UNCHANGED <<fsVars, metaVars>>

ImageNewReturned(fr, ret) == [op |-> "image_new", pc |-> "returned", ret |-> ret]

\* what follows a part of Image::new: its other part, or line 48, Ok(image)
ImageNewNext(fr) ==
    IF ~fr.dirsDone THEN [fr EXCEPT !.pc = "mkdir"]
    ELSE IF ~fr.written THEN [fr EXCEPT !.pc = "create"]
    ELSE ImageNewReturned(fr, Ok("Image"))

\* line 42, create_dir_all: one mkdir(2) for each directory of BlobPath that
\* is missing, from oci_dir down
ImageNewMkdir(p) ==
    /\ call[p].op = "image_new" /\ call[p].pc = "mkdir"
    /\ IF dirs < Len(BlobPath)
       THEN /\ dirs' = dirs + 1
            /\ made' = made
            /\ call' = call
       ELSE /\ dirs' = dirs
            /\ call' = [call EXCEPT ![p] = ImageNewNext([@ EXCEPT !.dirsDone = TRUE])]
            /\ made' = (call'[p].pc = "returned")
    /\ UNCHANGED <<inodes, rootDir, blobDir, metaVars, prev, todo>>

\* line 43: fs::File::create(oci_dir.join(IMAGE_LAYOUT_PATH))
ImageNewCreate(p) ==
    /\ call[p].op = "image_new" /\ call[p].pc = "create"
    /\ IF dirs = 0
       THEN /\ call' = [call EXCEPT ![p] = ImageNewReturned(@, Err(OsError("NotFound")))]
            /\ layoutFile' = layoutFile
       ELSE IF layoutFile.exists /\ ~layoutFile.readable
       THEN /\ call' = [call EXCEPT ![p] =
                          ImageNewReturned(@, Err(OsError("PermissionDenied")))]
            /\ layoutFile' = layoutFile
       ELSE /\ layoutFile' = CreateFile(layoutFile)
            /\ call' = [call EXCEPT ![p].pc = "write"]
    /\ UNCHANGED <<fsVars, indexFile, saved, prev, todo, made>>

\* line 47: serde_json::to_writer writes the text piece by piece
ImageNewWrite(p) ==
    /\ call[p].op = "image_new" /\ call[p].pc = "write"
    /\ IF call[p].off < Len(call[p].text)
       THEN /\ layoutFile' = [layoutFile EXCEPT
                                !.data = WriteAt(@, call[p].off, call[p].text[call[p].off + 1])]
            /\ call' = [call EXCEPT ![p].off = @ + 1]
            /\ made' = made
       ELSE /\ layoutFile' = layoutFile
            /\ call' = [call EXCEPT ![p] = ImageNewNext([@ EXCEPT !.written = TRUE])]
            /\ made' = (call'[p].pc = "returned")
    /\ UNCHANGED <<fsVars, indexFile, saved, prev, todo>>

ImageNewStep(p) ==
    \/ ImageNewMkdir(p)
    \/ ImageNewCreate(p)
    \/ ImageNewWrite(p)

(***************************************************************************)
(* The process of a client is killed in the middle of a call: the call      *)
(* never returns, no destructor runs, the files stay as they are.           *)
(***************************************************************************)
Crash(p) ==
    /\ call[p].pc \notin {"idle", "returned", "panicked"}
    /\ call' = [call EXCEPT ![p] = [op |-> "killed", pc |-> "idle"]]
    /\ UNCHANGED <<fsVars, metaVars, prev, todo, made>>

(***************************************************************************)
(* Arguments the clients draw.                                              *)
(***************************************************************************)
Digests == {Sha256(b) : b \in Inputs}

\* a chunk digest that is not 32 bytes long
ShortDigest == <<1, 2, 3>>

Offsets == {U64(0), U64(3), U64FromTop(1)}
AddlOffsets == {U64(0), U64(2), U64(6)}
BufLens == {0, 4}

ChunkRefs == [digest : Digests \cup {ShortDigest}, offset : Offsets]

(***************************************************************************)
(* Sequential runs: one client, MaxCalls calls on a fresh image.            *)
(***************************************************************************)
InitFs ==
    /\ inodes = <<>>
    /\ rootDir = EmptyDir
    /\ blobDir = EmptyDir
    /\ dirs = Len(BlobPath)

InitSeq ==
    /\ InitFs
    /\ indexFile = NoFile
    /\ layoutFile = FileOf(LayoutText(PUZZLEFS_IMAGE_LAYOUT_VERSION))
    /\ saved = NoSave
    /\ call = [p \in Procs |-> Idle]
    /\ prev = [p \in Procs |-> NoPrev]
    /\ todo = [p \in Procs |-> IF p = "c1" THEN MaxCalls ELSE 0]
    /\ made = FALSE

SeqPut == \E b \in Inputs, C \in Backends : PutBlobCall("c1", b, C)
SeqOpen == \E d \in Digests, m \in ReadModes : OpenBlobCall("c1", d, m)
SeqFill == \E c \in ChunkRefs, a \in AddlOffsets, n \in BufLens : FillCall("c1", c, a, n)

NextSeq ==
    \/ SeqPut
    \/ SeqOpen
    \/ SeqFill
    \/ PutBlobStep("c1")
    \/ ReadStep("c1")

SpecSeq == InitSeq /\ [][NextSeq]_vars

(***************************************************************************)
(* Concurrent runs: two writers and a reader, one call each.                *)
(***************************************************************************)
ConcDigests == {Sha256(b) : b \in ConcInputs}

InitConc ==
    /\ InitFs
    /\ indexFile = NoFile
    /\ layoutFile = FileOf(LayoutText(PUZZLEFS_IMAGE_LAYOUT_VERSION))
    /\ saved = NoSave
    /\ call = [p \in Procs |-> Idle]
    /\ prev = [p \in Procs |-> NoPrev]
    /\ todo = [p \in Procs |-> 1]
    /\ made = FALSE

ConcPut == \E p \in Writers, b \in ConcInputs, C \in Backends : PutBlobCall(p, b, C)
ConcOpen == \E p \in Readers, d \in ConcDigests, m \in ReadModes : OpenBlobCall(p, d, m)
ConcFill ==
    \E p \in Readers, d \in ConcDigests :
        FillCall(p, [digest |-> d, offset |-> U64(0)], U64(0), 4)

NextConc ==
    \/ ConcPut
    \/ ConcOpen
    \/ ConcFill
    \/ \E p \in Writers : PutBlobStep(p)
    \/ \E p \in Readers : ReadStep(p)

SpecConc == InitConc /\ [][NextConc]_vars

(***************************************************************************)
(* Index and layout runs: one client, MaxCalls calls of put_index,          *)
(* get_index and Image::open on a root whose index.json or oci-layout may   *)
(* have been left by anyone.                                                *)
(***************************************************************************)
\* lib.rs 158-160: the descriptor of the test, named "foo"
dFoo == set_name(DescriptorNew(MeshuggahDigest, Len(MeshuggahRocks)), "foo")
dBar == [set_name(DescriptorNew(ZeroDigest, 1), "bar") EXCEPT
            !.annotations = [k \in {"k"} |-> "v"]]
dAnon == DescriptorNew(EmptyDigest, 0)

TwoKeys == [k \in {"a", "b"} |-> IF k = "a" THEN "1" ELSE "2"]

\* the Index values the client saves
Indexes ==
    {IndexDefault,
     [IndexDefault EXCEPT !.manifests = <<dFoo>>],
     [IndexDefault EXCEPT !.manifests = <<dFoo, dBar>>, !.annotations = TwoKeys],
     [IndexDefault EXCEPT !.manifests = <<dBar, dAnon, dFoo>>]}

\* schema versions of other formats (2 is the OCI image index)
OtherVersions == {2, 0}
OtherLayoutVersions == {"1.0.0", ""}

\* index files of other versions
ForeignIndexTexts(v) ==
    UNION {IndexTexts([i EXCEPT !.version = v]) :
             i \in {IndexDefault, [IndexDefault EXCEPT !.manifests = <<dFoo>>]}}

LongIndex == [IndexDefault EXCEPT !.manifests = <<dFoo, dFoo, dFoo, dFoo>>]

InitIndexFiles ==
    {NoFile, Denied, FileOf(<<>>), FileOf(<<NulByte>>)}
      \cup {FileOf(SubSeq(t, 1, 6)) : t \in IndexTexts(IndexDefault)}
      \cup {FileOf(t) : t \in IndexTexts(LongIndex)}
      \cup {FileOf(<<P("{"), S("schemaVersion"), P(":"), S("2"), P("}")>>)}
      \cup UNION {{FileOf(t) : t \in ForeignIndexTexts(v)} : v \in OtherVersions}

InitLayoutFiles ==
    {NoFile, Denied, FileOf(<<>>),
     FileOf(<<P("{"), S("imageLayoutVersion"), P(":"), N(1), P("}")>>),
     FileOf(SubSeq(LayoutText(PUZZLEFS_IMAGE_LAYOUT_VERSION), 1, 4)),
     FileOf(LayoutText(PUZZLEFS_IMAGE_LAYOUT_VERSION))}
      \cup {FileOf(LayoutText(v)) : v \in OtherLayoutVersions}

InitMeta ==
    /\ InitFs
    /\ \/ /\ indexFile \in InitIndexFiles
          /\ layoutFile = FileOf(LayoutText(PUZZLEFS_IMAGE_LAYOUT_VERSION))
       \/ /\ indexFile = NoFile
          /\ layoutFile \in InitLayoutFiles
    /\ saved = NoSave
    /\ call = [p \in Procs |-> Idle]
    /\ prev = [p \in Procs |-> NoPrev]
    /\ todo = [p \in Procs |-> IF p = "c1" THEN MaxCalls ELSE 0]
    /\ made = FALSE

MetaPut == \E i \in Indexes : PutIndexCall("c1", i)
MetaGet == GetIndexCall("c1")
MetaOpen == ImageOpenCall("c1")

NextMeta ==
    \/ MetaPut
    \/ MetaGet
    \/ MetaOpen
    \/ MetaStep("c1")

SpecMeta == InitMeta /\ [][NextMeta]_vars

(***************************************************************************)
(* Properties.                                                              *)
(***************************************************************************)
PutReturned(p) == call[p].op = "put_blob" /\ call[p].pc = "returned"
PutInFlight(p) == call[p].op = "put_blob" /\ call[p].pc \in {"copy", "persist", "drop"}

\* the bytes the blob file of inode i holds once its put_blob has written all of it
Complete(i) == Stored(inodes[i].by[2], inodes[i].by[1])

\* C1: blob write atomicity.  Every file visible under blobs/sha256 holds
\* the complete stored bytes of its blob, for every backend, so a reader that
\* opened a blob by its digest and read it to the end got exactly those bytes
\* (or got not-found): nothing is written to a blob after its rename.
C1_BlobWriteAtomic ==
    /\ \A n \in DOMAIN blobDir : inodes[blobDir[n]].data = Complete(blobDir[n])
    /\ \A p \in Procs :
         (call[p].op = "open_blob" /\ call[p].pc = "returned")
            => IF call[p].ret.ok
               THEN call[p].mode = "raw" => call[p].ret.val = Complete(call[p].ino)
               ELSE call[p].ino = 0 => call[p].ret.err = OsError("NotFound")
    /\ \A p \in Procs :
         (call[p].op = "fill_from_chunk" /\ call[p].pc = "returned" /\ call[p].ret.ok)
            => call[p].out = SubSeqFrom(Complete(call[p].ino), 0,
                                        Min(call[p].buflen, Len(Complete(call[p].ino))))

\* C2: digest correctness.  A put_blob that returned a Descriptor returned
\* the SHA-256 of its uncompressed input, whatever the backend, and a file
\* named by the lowercase hex of that digest is in blobs/sha256; for
\* "meshuggah rocks" the name is the one the repository's test expects.
C2_DigestCorrect ==
    \A p \in Procs :
        PutReturned(p) =>
            /\ call[p].ret.ok
            /\ call[p].ret.val.digest = Sha256(call[p].buf)
            /\ HexEncode(Sha256(call[p].buf)) \in DOMAIN blobDir
            /\ call[p].buf = MeshuggahRocks =>
                 /\ digest_as_str(call[p].ret.val)
                      = "3abd5ce0f91f640d88dca1f26b37037b02415927cacec9626d87668a715ec12d"
                 /\ "3abd5ce0f91f640d88dca1f26b37037b02415927cacec9626d87668a715ec12d"
                      \in DOMAIN blobDir

\* a put_blob of "meshuggah rocks" through the compressing backend has returned
C2_Witness ==
    /\ PutReturned("c1")
    /\ call["c1"].buf = MeshuggahRocks
    /\ call["c1"].C = "Rle"
    /\ call["c1"].ret.ok

\* C3: blob round trip.  After put_blob(b) with the Noop backend returned a
\* Descriptor, opening the raw blob by its digest and reading to the end
\* yields exactly b.
C3_RoundTrip ==
    \A p \in Procs :
        (/\ call[p].op = "open_blob" /\ call[p].pc = "returned"
         /\ call[p].mode = "raw"
         /\ prev[p].op = "put_blob" /\ prev[p].C = "Noop"
         /\ call[p].digest = prev[p].ret.val.digest)
            => call[p].ret = Ok(prev[p].buf)

\* "0123456789" was put with Noop and read back raw
C3_Witness ==
    /\ call["c1"].op = "open_blob" /\ call["c1"].pc = "returned"
    /\ call["c1"].mode = "raw"
    /\ prev["c1"].op = "put_blob" /\ prev["c1"].C = "Noop"
    /\ prev["c1"].buf = Digits
    /\ call["c1"].digest = prev["c1"].ret.val.digest
    /\ call["c1"].ret.ok

\* C4: size correctness.  The size of the Descriptor put_blob returns is the
\* number of input bytes, whatever the backend wrote to the file.
C4_SizeCorrect ==
    \A p \in Procs :
        PutReturned(p) => call[p].ret.ok /\ call[p].ret.val.size = Len(call[p].buf)

\* a put_blob returned whose blob file is not as long as its input
C4_Witness ==
    /\ PutReturned("c1")
    /\ call["c1"].ret.ok
    /\ call["c1"].C = "Rle"
    /\ LET name == digest_as_str(call["c1"].ret.val)
       IN  /\ name \in DOMAIN blobDir
           /\ Len(inodes[blobDir[name]].data) # Len(call["c1"].buf)

\* the position chunk.offset + addl_offset is at or past the end of `data`
AtOrPastEnd(offset, addl, data) ==
    LET s == U64Add(offset, addl)
    IN  s.overflow \/ ~U64Small(s.sum) \/ U64ToNat(s.sum) >= Len(data)

\* C5: chunked read.  For a stored blob and a chunk reference with a 32-byte
\* digest, fill_from_chunk returns n with 0 <= n <= len(buf), the n bytes it
\* put in buf are the blob's physical bytes from position
\* chunk.offset + addl_offset on, and n = 0 when that position is at or past
\* the end of the file, for every offset and additional offset.
C5_ChunkedRead ==
    \A p \in Procs :
        (/\ call[p].op = "fill_from_chunk"
         /\ call[p].pc \in {"returned", "panicked"}
         /\ Len(call[p].chunk.digest) = 32
         /\ HexEncode(call[p].chunk.digest) \in DOMAIN blobDir)
            => LET data == inodes[blobDir[HexEncode(call[p].chunk.digest)]].data
                   past == AtOrPastEnd(call[p].chunk.offset, call[p].addl, data)
                   pos == U64ToNat(U64Add(call[p].chunk.offset, call[p].addl).sum)
               IN  /\ call[p].pc = "returned"
                   /\ call[p].ret.ok
                   /\ call[p].ret.val \in 0..call[p].buflen
                   /\ Len(call[p].out) = call[p].ret.val
                   /\ past => call[p].ret.val = 0
                   /\ ~past => call[p].out = SubSeqFrom(data, pos, call[p].ret.val)

\* the example of C5: "0123456789" stored with Noop, offset 3, additional
\* offset 2, a buffer of 4 bytes: fill_from_chunk returned 4 and "5678"
C5_Example ==
    /\ call["c1"].op = "fill_from_chunk" /\ call["c1"].pc = "returned"
    /\ call["c1"].chunk = [digest |-> Sha256(Digits), offset |-> U64(3)]
    /\ call["c1"].addl = U64(2)
    /\ call["c1"].buflen = 4
    /\ prev["c1"].op = "put_blob" /\ prev["c1"].buf = Digits /\ prev["c1"].C = "Noop"
    /\ call["c1"].ret = Ok(4)
    /\ call["c1"].out = <<53, 54, 55, 56>>

\* C5 where the position fits a file offset (the sum has no carry out of 64
\* bits and is below 2^63): this part holds
C5_InRange ==
    \A p \in Procs :
        (/\ call[p].op = "fill_from_chunk"
         /\ call[p].pc \in {"returned", "panicked"}
         /\ Len(call[p].chunk.digest) = 32
         /\ HexEncode(call[p].chunk.digest) \in DOMAIN blobDir
         /\ ~U64Add(call[p].chunk.offset, call[p].addl).overflow
         /\ ~U64TopBit(U64Add(call[p].chunk.offset, call[p].addl).sum))
            => LET data == inodes[blobDir[HexEncode(call[p].chunk.digest)]].data
                   past == AtOrPastEnd(call[p].chunk.offset, call[p].addl, data)
                   pos == U64ToNat(U64Add(call[p].chunk.offset, call[p].addl).sum)
               IN  /\ call[p].pc = "returned"
                   /\ call[p].ret.ok
                   /\ call[p].ret.val \in 0..call[p].buflen
                   /\ Len(call[p].out) = call[p].ret.val
                   /\ past => call[p].ret.val = 0
                   /\ ~past => call[p].out = SubSeqFrom(data, pos, call[p].ret.val)

\* C8: idempotent overwrite.  A put_blob that follows a put_blob of the same
\* bytes with the same backend returns a Descriptor with the same digest and
\* size, and leaves the set of blob files as the first call left it, with
\* exactly one file for that content.
C8_IdempotentOverwrite ==
    \A p \in Procs :
        (/\ PutReturned(p)
         /\ prev[p].op = "put_blob"
         /\ prev[p].buf = call[p].buf /\ prev[p].C = call[p].C)
            => /\ call[p].ret.ok
               /\ call[p].ret.val.digest = prev[p].ret.val.digest
               /\ call[p].ret.val.size = prev[p].ret.val.size
               /\ call[p].names = prev[p].names
               /\ DOMAIN blobDir = prev[p].names
               /\ Cardinality({n \in DOMAIN blobDir :
                                 inodes[blobDir[n]].by[1] = call[p].buf}) = 1

\* the same bytes were put twice through the compressing backend, the second
\* file renamed over the first blob
C8_Witness ==
    /\ PutReturned("c1")
    /\ prev["c1"].op = "put_blob"
    /\ prev["c1"].buf = call["c1"].buf /\ prev["c1"].C = call["c1"].C
    /\ call["c1"].ret.ok
    /\ call["c1"].C = "Rle"
    /\ Len(inodes) = 2
    /\ blobDir[digest_as_str(call["c1"].ret.val)] = 2

\* C9: concurrent writers of the same content.  When two put_blob calls have
\* the same input and backend, in any interleaving each call that returned
\* succeeded with the digest of the input, from the first rename on the blob
\* file holds the complete content, and when both returned there is exactly
\* one blob file.
C9_SameContentRace ==
    \A p, q \in Writers :
        (/\ p # q
         /\ call[p].op = "put_blob" /\ call[q].op = "put_blob"
         /\ call[p].buf = call[q].buf /\ call[p].C = call[q].C)
            => LET name == HexEncode(Sha256(call[p].buf))
               IN  /\ PutReturned(p) =>
                        call[p].ret.ok /\ call[p].ret.val.digest = Sha256(call[p].buf)
                   /\ name \in DOMAIN blobDir =>
                        inodes[blobDir[name]].data = Stored(call[p].C, call[p].buf)
                   /\ (PutReturned(p) /\ PutReturned(q)) => DOMAIN blobDir = {name}

\* C10: concurrent writers of different content.  Two put_blob calls in
\* flight never share a temporary file, and when both have returned, with
\* different inputs, their blobs have different names and each holds its own
\* writer's content.
C10_DifferentContent ==
    \A p, q \in Writers :
        p # q =>
            /\ (PutInFlight(p) /\ PutInFlight(q)) =>
                 /\ call[p].ino # call[q].ino
                 /\ (call[p].pc # "drop" /\ call[q].pc # "drop") =>
                      /\ call[p].tmp # call[q].tmp
                      /\ call[p].tmp \in DOMAIN rootDir
                      /\ rootDir[call[p].tmp] = call[p].ino
            /\ (PutReturned(p) /\ PutReturned(q) /\ call[p].buf # call[q].buf) =>
                 /\ call[p].ret.ok /\ call[q].ret.ok
                 /\ digest_as_str(call[p].ret.val) # digest_as_str(call[q].ret.val)
                 /\ digest_as_str(call[p].ret.val) \in DOMAIN blobDir
                 /\ inodes[blobDir[digest_as_str(call[p].ret.val)]].data
                      = Stored(call[p].C, call[p].buf)

\* two writers of different content have both renamed and neither has returned
C10_Witness ==
    /\ call["c1"].op = "put_blob" /\ call["c1"].pc = "drop"
    /\ call["c2"].op = "put_blob" /\ call["c2"].pc = "drop"
    /\ call["c1"].buf # call["c2"].buf
    /\ Cardinality(DOMAIN blobDir) = 2

GetReturned(p) == call[p].op = "get_index" /\ call[p].pc = "returned"
OpenReturned(p) == call[p].op = "image_open" /\ call[p].pc = "returned"

\* C6: index round trip.  A get_index that follows a put_index(i), with no
\* save in between, returns an Index whose manifests (in the same order),
\* annotations and schema version are those of i, whatever index.json held
\* before the save.
C6_IndexRoundTrip ==
    \A p \in Procs :
        (GetReturned(p) /\ call[p].seen.state = "done" /\ saved = call[p].seen)
            => /\ call[p].ret.ok
               /\ call[p].ret.val.manifests = saved.index.manifests
               /\ call[p].ret.val.annotations = saved.index.annotations
               /\ call[p].ret.val.version = saved.index.version

\* an Index of two named descriptors and two annotations was saved over a
\* longer index.json and loaded again
C6_Witness ==
    /\ GetReturned("c1")
    /\ call["c1"].seen.state = "done" /\ saved = call["c1"].seen
    /\ saved.index.manifests = <<dFoo, dBar>>
    /\ saved.index.annotations = TwoKeys
    /\ saved.before > Len(indexFile.data)
    /\ call["c1"].ret.ok

\* the kinds of error a caller can tell apart
IsNotFound(e) == e.type = "io::Error" /\ e.repr = "os" /\ e.kind = "NotFound"
IsMalformed(e) == e.type = "serde_json::Error" /\ e.category \in {"Syntax", "Data", "Eof"}
IsIo(e) ==
    \/ e.type = "io::Error" /\ e.repr = "os" /\ e.kind # "NotFound"
    \/ e.type = "serde_json::Error" /\ e.category = "Io"
IsVersionMismatch(e) == e.type = "io::Error" /\ e.repr = "custom" /\ e.kind = "Other"

\* C7: version gate.  get_index on an index.json of any schemaVersion other
\* than -1 returns no Index but the error "bad schema version <value>", and
\* Image::open on an oci-layout of any other version string returns no
\* Image but the error "bad image layout version <string>"; an error of this
\* kind is returned for no other file, and is none of not-found, malformed
\* and I/O.
C7_VersionGate ==
    \A p \in Procs :
        /\ GetReturned(p) =>
             /\ \A v \in OtherVersions :
                  call[p].got \in ForeignIndexTexts(v) =>
                      call[p].ret = Err([type |-> "io::Error", kind |-> "Other",
                                         repr |-> "custom",
                                         msg |-> "bad schema version " \o ToString(v)])
             /\ ~call[p].ret.ok =>
                  /\ IsVersionMismatch(call[p].ret.err)
                       <=> \E v \in OtherVersions : call[p].got \in ForeignIndexTexts(v)
                  /\ IsVersionMismatch(call[p].ret.err) =>
                       /\ ~IsNotFound(call[p].ret.err)
                       /\ ~IsMalformed(call[p].ret.err)
                       /\ ~IsIo(call[p].ret.err)
        /\ OpenReturned(p) =>
             /\ \A v \in OtherLayoutVersions :
                  call[p].got = LayoutText(v) =>
                      call[p].ret = Err([type |-> "io::Error", kind |-> "Other",
                                         repr |-> "custom",
                                         msg |-> "bad image layout version " \o v])
             /\ ~call[p].ret.ok =>
                  /\ IsVersionMismatch(call[p].ret.err)
                       <=> \E v \in OtherLayoutVersions : call[p].got = LayoutText(v)
                  /\ IsVersionMismatch(call[p].ret.err) =>
                       /\ ~IsNotFound(call[p].ret.err)
                       /\ ~IsMalformed(call[p].ret.err)
                       /\ ~IsIo(call[p].ret.err)

\* an index.json of schemaVersion 2 with a manifest was loaded
C7_Witness ==
    /\ GetReturned("c1")
    /\ call["c1"].got \in ForeignIndexTexts(2)
    /\ Len(call["c1"].got) > Len(CHOOSE t \in IndexTexts(IndexDefault) : TRUE)
    /\ ~call["c1"].ret.ok

(***************************************************************************)
(* Runs with failing steps: one client, MaxCalls calls of put_blob, where   *)
(* any step may fail, on a root whose directory blobs/sha256 may be missing.*)
(***************************************************************************)
InitFault ==
    /\ inodes = <<>>
    /\ rootDir = EmptyDir
    /\ blobDir = EmptyDir
    /\ dirs \in {1, Len(BlobPath)}
    /\ indexFile = NoFile
    /\ layoutFile = FileOf(LayoutText(PUZZLEFS_IMAGE_LAYOUT_VERSION))
    /\ saved = NoSave
    /\ call = [p \in Procs |-> Idle]
    /\ prev = [p \in Procs |-> NoPrev]
    /\ todo = [p \in Procs |-> IF p = "c1" THEN MaxCalls ELSE 0]
    /\ made = FALSE

NextFault ==
    \/ \E b \in ConcInputs, C \in Backends : PutBlobCall("c1", b, C)
    \/ PutBlobStep("c1")
    \/ PutBlobFail("c1")

SpecFault == InitFault /\ [][NextFault]_vars

PutFailed(p) ==
    /\ call[p].op = "put_blob" /\ call[p].pc = "returned" /\ ~call[p].ret.ok

\* C11: a put_blob that returns an error returns no Descriptor and leaves
\* the files of blobs/sha256, their names and their bytes, as they were when
\* the call was made; a put_blob that returns a Descriptor leaves the blob
\* named by its digest in blobs/sha256.
C11_NoPartialResults ==
    \A p \in Procs :
        /\ PutFailed(p) =>
             /\ "val" \notin DOMAIN call[p].ret
             /\ BlobFiles = call[p].before
        /\ PutReturned(p) /\ call[p].ret.ok =>
             digest_as_str(call[p].ret.val) \in DOMAIN blobDir

\* a put_blob failed at the rename, after another one had stored a blob
C11_Witness ==
    /\ PutFailed("c1")
    /\ call["c1"].ret.err = OsError("StorageFull")
    /\ call["c1"].at = "persist"
    /\ DOMAIN blobDir # {}
    /\ prev["c1"].op = "put_blob"

\* C18: when no put_blob is in progress, oci_dir holds no temporary file:
\* every put_blob that returned, with a Descriptor or with an error, has
\* renamed its temporary file into blobs/sha256 or removed it.
C18_NoTempOutlives ==
    (\A p \in Procs : ~(call[p].op = "put_blob" /\ call[p].pc # "returned"))
        => rootDir = EmptyDir

\* a put_blob failed in io::copy, after its temporary file had been created,
\* and an earlier one had returned a Descriptor
C18_Witness ==
    /\ PutFailed("c1")
    /\ call["c1"].at = "copy"
    /\ prev["c1"].op = "put_blob"
    /\ rootDir = EmptyDir

ReadOps == {"open_blob", "fill_from_chunk"}
Ended(fr) == fr.pc \in {"returned", "panicked"}

\* C13: a read of a digest that names no file in blobs/sha256 (an open, raw
\* or through a decoder, or a fill_from_chunk) returns a not-found error; a
\* fill_from_chunk whose chunk digest is not 32 bytes long returns a
\* conversion error without having opened a file; neither returns bytes, and
\* no step of a read changes a file or a directory of the root.
C13_ReadErrors ==
    [][\A p \in Procs :
          /\ (call[p].op \in ReadOps /\ ~Ended(call[p]))
                => UNCHANGED <<fsVars, metaVars>>
          /\ (call[p].op = "open_blob" /\ ~Ended(call[p]) /\ Ended(call'[p])
              /\ hex_encode(call[p].digest) \notin DOMAIN blobDir)
                => call'[p].ret = Err(OsError("NotFound"))
          /\ (call[p].op = "fill_from_chunk" /\ ~Ended(call[p]) /\ Ended(call'[p])
              /\ Len(call[p].chunk.digest) = 32
              /\ hex_encode(call[p].chunk.digest) \notin DOMAIN blobDir)
                => /\ call'[p].pc = "returned"
                   /\ call'[p].ret = Err(FormatIoError(OsError("NotFound")))
                   /\ call'[p].out = <<>>
          /\ (call[p].op = "fill_from_chunk" /\ ~Ended(call[p]) /\ Ended(call'[p])
              /\ Len(call[p].chunk.digest) # 32)
                => /\ call'[p].pc = "returned"
                   /\ call'[p].ret = Err(FormatConversionError)
                   /\ call'[p].ino = 0
                   /\ call'[p].out = <<>>
      ]_vars

\* a fill_from_chunk with a 3-byte digest returned the conversion error
\* while blobs/sha256 held a blob
C13_Witness ==
    /\ call["c1"].op = "fill_from_chunk" /\ call["c1"].pc = "returned"
    /\ call["c1"].chunk.digest = ShortDigest
    /\ call["c1"].ret = Err(FormatConversionError)
    /\ DOMAIN blobDir # {}

\* C14: blob directory integrity.  In every state, temporary files are
\* entries of oci_dir only, never of blobs/sha256, and the bytes of every
\* file of blobs/sha256 decode, with the backend that wrote them, to a
\* content whose lowercase hex SHA-256 is the file's name.
C14_BlobDirIntegrity ==
    /\ DOMAIN rootDir \subseteq TmpNames
    /\ DOMAIN blobDir \cap TmpNames = {}
    /\ \A n \in DOMAIN blobDir :
         LET f == inodes[blobDir[n]]
             content == decompress(f.by[2], f.data)
         IN  content.ok /\ n = HexEncode(Sha256(content.val))

\* the part of C14 on where the files are: temporary files are entries of
\* oci_dir only, and every name in blobs/sha256 is the hex digest of the
\* input of the put_blob that wrote the file
C14_Names ==
    /\ DOMAIN rootDir \subseteq TmpNames
    /\ \A n \in DOMAIN blobDir : n = HexEncode(Sha256(inodes[blobDir[n]].by[1]))

\* C19: chunk offset arithmetic does not wrap.  A fill_from_chunk whose
\* chunk.offset + addl_offset exceeds 2^64 - 1 puts no bytes in buf: it does
\* not read from the position the sum wraps to.
C19_NoWrap ==
    \A p \in Procs :
        (/\ call[p].op = "fill_from_chunk"
         /\ Ended(call[p])
         /\ U64Add(call[p].chunk.offset, call[p].addl).overflow)
            => call[p].out = <<>>

\* the part of C19 below the carry: a fill_from_chunk that returned bytes
\* read them at the exact sum chunk.offset + addl_offset
C19_ExactSum ==
    \A p \in Procs :
        (/\ call[p].op = "fill_from_chunk"
         /\ Ended(call[p])
         /\ ~U64Add(call[p].chunk.offset, call[p].addl).overflow
         /\ call[p].out # <<>>)
            => call[p].out =
                 SubSeqFrom(inodes[call[p].ino].data,
                            U64ToNat(call[p].chunk.offset) + U64ToNat(call[p].addl),
                            Len(call[p].out))

\* C17: blob visibility is monotonic.  Once a put_blob has returned the
\* Descriptor of a blob, in every later state the file named by its digest is
\* in blobs/sha256 and its bytes decode to the content that was put: an open
\* of the digest succeeds and reads that content, whatever other put_blob
\* calls (overwrites of the same digest among them) did in between.
C17_VisibilityMonotonic ==
    \A w \in Procs :
        (PutReturned(w) /\ call[w].ret.ok)
            => LET n == digest_as_str(call[w].ret.val)
               IN  /\ n \in DOMAIN blobDir
                   /\ decompress(inodes[blobDir[n]].by[2], inodes[blobDir[n]].data)
                        = Ok(call[w].buf)

\* the part of C17 on names: no step removes a name from blobs/sha256
C17_NamesKept == [][DOMAIN blobDir \subseteq DOMAIN blobDir']_vars

(***************************************************************************)
(* Runs from no image: one client on a directory that does not exist or is  *)
(* empty, where the only marker and directories are those Image::new makes. *)
(* put_blob and put_index take &self: the client calls them when its last   *)
(* call left it an Image.  The client's process may be killed in any call.  *)
(***************************************************************************)
HasImage(p) ==
    /\ call[p].pc = "returned"
    /\ call[p].op \in {"image_new", "image_open"} => call[p].ret.ok

InitRoot ==
    /\ inodes = <<>>
    /\ rootDir = EmptyDir
    /\ blobDir = EmptyDir
    /\ dirs \in {0, 1}
    /\ indexFile = NoFile
    /\ layoutFile = NoFile
    /\ saved = NoSave
    /\ call = [p \in Procs |-> Idle]
    /\ prev = [p \in Procs |-> NoPrev]
    /\ todo = [p \in Procs |-> IF p = "c1" THEN MaxCalls + 2 ELSE 0]
    /\ made = FALSE

RootPut == HasImage("c1") /\ \E b \in ConcInputs, C \in Backends : PutBlobCall("c1", b, C)
RootPutIndex == HasImage("c1") /\ PutIndexCall("c1", IndexDefault)

NextRoot ==
    \/ ImageNewCall("c1")
    \/ ImageOpenCall("c1")
    \/ RootPut
    \/ RootPutIndex
    \/ ImageNewStep("c1")
    \/ ImageOpenOpen("c1")
    \/ ImageOpenRead("c1")
    \/ ImageOpenEof("c1")
    \/ PutBlobStep("c1")
    \/ PutIndexCreate("c1")
    \/ PutIndexWrite("c1")
    \/ PutIndexReturn("c1")
    \/ Crash("c1")

SpecRoot == InitRoot /\ [][NextRoot]_vars

\* C12: an Image::open made after an Image::new returned Ok, with calls of
\* put_blob, put_index and Image::open in between and no Image::new begun
\* since, returns Ok; an Image::open on a directory without marker file
\* returns the not-found error.
C12_NewThenOpen ==
    \A p \in Procs :
        OpenReturned(p) =>
            /\ made => call[p].ret.ok
            /\ ~layoutFile.exists => call[p].ret = Err(OsError("NotFound"))

\* Image::new returned Ok, then a put_blob and a put_index returned, then
\* Image::open returned Ok
C12_Witness ==
    /\ OpenReturned("c1") /\ call["c1"].ret.ok
    /\ made
    /\ DOMAIN blobDir # {}
    /\ saved.state = "done"

\* the marker file is there and parses to the expected version
MarkerValid == layoutFile.exists /\ ImageOpenResult(layoutFile.data).ok

\* C20: layout creation ordering.  On a root that only Image::new has
\* written (runs that were killed part-way and runs on an existing root
\* among them), in every state a marker file that parses to the expected
\* version implies that the directory blobs/sha256 exists; so no put_blob on
\* an Image that Image::new or Image::open returned fails for a missing
\* directory.
C20_LayoutOrdering ==
    /\ MarkerValid => dirs = Len(BlobPath)
    /\ \A p \in Procs : PutFailed(p) => call[p].ret.err # OsError("NotFound")

\* the client was killed in an Image::new whose marker is complete
C20_Witness ==
    /\ call["c1"].op = "killed"
    /\ MarkerValid
    /\ ~made
    /\ dirs = Len(BlobPath)
    /\ blobDir = EmptyDir /\ rootDir = EmptyDir /\ ~indexFile.exists

(***************************************************************************)
(* Concurrent index runs: two clients that each load the index, append      *)
(* their own descriptor and save it, on a root whose index.json holds the   *)
(* default Index; the second client then loads the index again.  The        *)
(* clients' saves do not overlap in time: a client begins its save when no  *)
(* other save is in progress; the loads run at any time.  The process of    *)
(* the first client may be killed while it saves.                           *)
(***************************************************************************)
Own(p) == IF p = "c1" THEN dFoo ELSE dAnon

InitIdx ==
    /\ InitFs
    /\ indexFile = FileOf(CHOOSE t \in IndexTexts(IndexDefault) : TRUE)
    /\ layoutFile = FileOf(LayoutText(PUZZLEFS_IMAGE_LAYOUT_VERSION))
    /\ saved = [NoSave EXCEPT !.state = "done"]
    /\ call = [p \in Procs |-> Idle]
    /\ prev = [p \in Procs |-> NoPrev]
    \* c1 makes two calls, a load and a save; c2 three, a load, a save, a load
    /\ todo = [p \in Procs |-> IF p = "c1" THEN 2 ELSE IF p = "c2" THEN 3 ELSE 0]
    /\ made = FALSE

IdxGet == \E p \in Writers : GetIndexCall(p)

\* the save of the Index that the client's get_index returned, with the
\* client's descriptor appended
IdxSave ==
    \E p \in Writers :
        /\ call[p].op = "get_index" /\ call[p].pc = "returned" /\ call[p].ret.ok
        /\ \A q \in Procs : ~(call[q].op = "put_index" /\ call[q].pc # "returned")
        /\ PutIndexCall(p, [call[p].ret.val EXCEPT !.manifests = Append(@, Own(p))])

IdxCrash == call["c1"].op = "put_index" /\ Crash("c1")

NextIdx ==
    \/ IdxGet
    \/ IdxSave
    \/ \E p \in Writers : GetIndexOpen(p)
    \/ \E p \in Writers : GetIndexRead(p)
    \/ \E p \in Writers : GetIndexEof(p)
    \/ \E p \in Writers : PutIndexCreate(p)
    \/ \E p \in Writers : PutIndexWrite(p)
    \/ \E p \in Writers : PutIndexReturn(p)
    \/ IdxCrash

SpecIdx == InitIdx /\ [][NextIdx]_vars

\* C15: last save wins.  A get_index made when the last save had returned
\* and had not overlapped another save, with no save begun before the
\* get_index returned, returns exactly the Index of that save, the most
\* recent one, whichever client saved it and whatever was saved before: an
\* earlier save by another client, made from the same loaded Index, is lost.
C15_LastSaveWins ==
    \A p \in Procs :
        (GetReturned(p) /\ call[p].seen.state = "done" /\ saved = call[p].seen)
            => call[p].ret = Ok(saved.index)

\* the lost update: both clients loaded the default Index, c1 saved it with
\* its descriptor and returned, then c2 saved it with its own (the second
\* save), and the index c2 then loads holds the descriptor of c2 only
C15_Witness ==
    /\ call["c1"].op = "put_index" /\ call["c1"].pc = "returned" /\ call["c1"].ret.ok
    /\ call["c1"].index.manifests = <<dFoo>>
    /\ GetReturned("c2") /\ todo["c2"] = 0
    /\ call["c2"].seen.state = "done" /\ saved = call["c2"].seen
    /\ saved.gen = 2
    /\ call["c2"].ret.ok
    /\ call["c2"].ret.val.manifests = <<dAnon>>

\* text is the beginning of a serialization of Index i, and not all of it
PartOf(text, i) ==
    \E t \in IndexTexts(i) : Len(text) < Len(t) /\ text = SubSeq(t, 1, Len(text))

\* C16: the index save is not atomic.  From the truncation of index.json by
\* a put_index until that put_index has written the last piece (for ever,
\* if its process is killed before), the file holds nothing or the beginning
\* of the new serialization, which does not parse: the previous index is
\* gone and the new one is not there.  A get_index that runs within that
\* time and reads such a part returns the parse error of an unexpected end,
\* neither the previous nor the new Index.
C16_SaveNotAtomic ==
    /\ saved.state = "saving" =>
         \/ indexFile.data \in IndexTexts(saved.index)
         \/ /\ PartOf(indexFile.data, saved.index)
            /\ IndexOpenResult(indexFile.data) = Err(JsonError("Eof"))
    /\ \A p \in Procs :
         (/\ GetReturned(p)
          /\ call[p].seen.state = "saving" /\ saved = call[p].seen
          /\ call[p].got \notin IndexTexts(saved.index))
            => /\ PartOf(call[p].got, saved.index)
               /\ call[p].ret = Err(JsonError("Eof"))

\* c2's get_index ran while c1 was writing its index, read a part of it and
\* returned the parse error
C16_Witness ==
    /\ call["c1"].op = "put_index" /\ call["c1"].pc = "write"
    /\ GetReturned("c2")
    /\ call["c2"].seen.state = "saving" /\ saved = call["c2"].seen
    /\ call["c2"].got # <<>>
    /\ call["c2"].ret = Err(JsonError("Eof"))

====
